---- MODULE Spec2Model ----
(***************************************************************************)
(* A model of PyFlow.ts: the registry of exposed entities, the generation  *)
(* of TypeScript declarations and index files, and the remote-call         *)
(* protocol obeyed by the emitted proxies, the TypeScript runtime and the  *)
(* two generated clients.                                                  *)
(***************************************************************************)
EXTENDS Integers, Sequences, FiniteSets, TLC

(***************************************************************************)
(* Bounds of the model.                                                    *)
(***************************************************************************)
MaxProxies == 2
MaxCalls == 3
MaxOps == 2
MaxRegistrations == 2
MaxRuns == 2
MaxTypeDepth == 2
MaxImports == 3
MaxOverlap == 2
MaxClientCreates == 1

(***************************************************************************)
(* The consumer side: emitted proxy classes and DefaultPyFlowRuntime.      *)
(***************************************************************************)
\* `private _instanceId: string | null = null`: the absent identity.
NoId == 0

\* Class names of the emitted proxy classes (this.constructor.name).
ProxyClasses == {"Counter", "Note"}
\* Methods of an emitted proxy class.
ProxyMethods == {"bump"}
\* Values of the captured constructor arguments (this._constructorArgs).
CtorArgs == {"a", "b"}
\* HTTP statuses the remote side may answer with.
HttpStatuses == {200, 201, 400, 500}
\* The statuses answered to the requests of the proxies: a success and a failure.
ProxyStatuses == {200, 500}

VARIABLES
    proxies,        \* sequence of proxy objects [cls, args, instanceId]
    instanceCache,  \* DefaultPyFlowRuntime.instanceCache: class name -> identity
    calls,          \* method calls on proxies, each with its position
    requests,       \* requests sent to the remote side, in order
    nextId,         \* the remote side's next fresh instance identity
    clientCache,    \* instance cache of each generated client and of the runtime
    ops,            \* operations issued directly on the runtime or a client
    ann,            \* the host program: each class's annotated field types
    regFunctions,   \* registry.functions, in insertion order
    regClasses,     \* registry.classes, in insertion order
    regModules,     \* registry.modules
    flagged,        \* objects carrying the _pyflow_decorated attribute
    files,          \* the output directory: path -> lines
    hist,           \* what the generation runs so far were and left behind
    convIn,         \* the input handed to the type converter or an emitter
    convOut         \* the text it returned, <<>> before the call

proxyVars == <<proxies, instanceCache, calls, requests>>
remoteVars == <<clientCache, ops>>
consumerVars == <<proxies, instanceCache, calls, requests, nextId, clientCache, ops>>
genVars == <<ann, regFunctions, regClasses, regModules, flagged, files, hist>>
convVars == <<convIn, convOut>>
vars == <<proxies, instanceCache, calls, requests, nextId, clientCache, ops,
          ann, regFunctions, regClasses, regModules, flagged, files, hist,
          convIn, convOut>>

\* response.ok of the fetch API: a status in the range 200-299.
ResponseOk(status) == status \in 200..299

\* new Proxy(...): the emitted constructor fills _constructorArgs; the
\* field initialiser leaves _instanceId null.
NewProxy(cls, args) == [cls |-> cls, args |-> args, instanceId |-> NoId]

\* Mutant: _ensureInstance without its guard.
NeedsInstanceAlways(p) == TRUE

\* Mutant: _ensureInstance consulting the runtime's cache of the class
\* instead of the proxy's own identity.
NeedsInstanceByClass(p) == instanceCache[proxies[p].cls] = NoId

\* _ensureInstance: `if (!this._instanceId)`.
NeedsInstance(p) == proxies[p].instanceId = NoId

\* DefaultPyFlowRuntime.createInstance: the body of the request.
CreateInstanceRequest(cls, args) ==
    [op |-> "create-instance", cls |-> cls, method |-> "", args |-> args,
     instance_id |-> NoId]

\* Mutant: createInstance without the response.ok check.
CreateInstanceOutcomeUnchecked(status) == "returned"

\* DefaultPyFlowRuntime.createInstance after the response: throws on
\* !response.ok, otherwise caches and returns the identity.
CreateInstanceOutcome(status) ==
    IF ~ResponseOk(status) THEN "raised" ELSE "returned"

\* DefaultPyFlowRuntime.callFunction after the response.
CallFunctionOutcome(status) ==
    IF ~ResponseOk(status) THEN "raised" ELSE "returned"

\* DefaultPyFlowRuntime.callMethod: the identity sent is the one cached under
\* the class name (an absent one is dropped by JSON.stringify).
CallMethodRequest(cache, cls, method, args) ==
    [op |-> "call-method", cls |-> cls, method |-> method, args |-> args,
     instance_id |-> cache[cls]]

\* DefaultPyFlowRuntime.callMethod after the response.
CallMethodOutcome(status) ==
    IF ~ResponseOk(status) THEN "raised" ELSE "returned"

Active(c) == calls[c].pc \notin {"returned", "raised"}
ActiveCalls == {c \in 1..Len(calls) : Active(c)}

\* The calls on proxy p whose create-instance response has not arrived.
AwaitingCreate(p) ==
    {c \in 1..Len(calls) : calls[c].proxy = p /\ calls[c].pc = "awaitCreate"}

NewCall(p, m, pc) ==
    [proxy |-> p, method |-> m, pc |-> pc, created |-> NoId,
     createAsked |-> (pc = "awaitCreate"), createStatus |-> 0,
     sent |-> FALSE, sentId |-> NoId, callStatus |-> 0,
     overlaps |-> AwaitingCreate(p)]

(***************************************************************************)
(* The runtime and the generated clients used directly: DefaultPyFlowRuntime *)
(* (pyflowRuntime.ts), PyFlowClient of client.py and PyFlowClient of       *)
(* client.js.                                                              *)
(***************************************************************************)
GeneratedClients == {"py-client", "js-client"}
Implementations == {"ts-runtime"} \cup GeneratedClients
RemoteOperations == {"create-instance", "call-method", "call-function"}

\* client.py, call_function: `if response.status_code != 200: raise`.
PyCallFunctionOutcome(status) ==
    IF status # 200 THEN "raised" ELSE "returned"

\* Mutant: create_instance without the status check.
PyCreateInstanceOutcomeUnchecked(status) == "returned"

\* client.py, create_instance: `if response.status_code != 200: raise`.
PyCreateInstanceOutcome(status) ==
    IF status # 200 THEN "raised" ELSE "returned"

\* Mutant: call_method raising on server errors only.
PyCallMethodOutcomeServerErrors(status) ==
    IF status >= 500 THEN "raised" ELSE "returned"

\* client.py, call_method: `if response.status_code != 200: raise`.
PyCallMethodOutcome(status) ==
    IF status # 200 THEN "raised" ELSE "returned"

\* client.js, callFunction: `if (!response.ok) throw`.
JsCallFunctionOutcome(status) ==
    IF ~ResponseOk(status) THEN "raised" ELSE "returned"

\* client.js, createInstance: `if (!response.ok) throw`.
JsCreateInstanceOutcome(status) ==
    IF ~ResponseOk(status) THEN "raised" ELSE "returned"

\* client.js, callMethod: `if (!response.ok) throw`.
JsCallMethodOutcome(status) ==
    IF ~ResponseOk(status) THEN "raised" ELSE "returned"

\* How an operation of an implementation ends on a response.
OperationOutcome(impl, op, status) ==
    CASE impl = "ts-runtime" /\ op = "call-function" -> CallFunctionOutcome(status)
      [] impl = "ts-runtime" /\ op = "create-instance" -> CreateInstanceOutcome(status)
      [] impl = "ts-runtime" /\ op = "call-method" -> CallMethodOutcome(status)
      [] impl = "py-client" /\ op = "call-function" -> PyCallFunctionOutcome(status)
      [] impl = "py-client" /\ op = "create-instance" -> PyCreateInstanceOutcome(status)
      [] impl = "py-client" /\ op = "call-method" -> PyCallMethodOutcome(status)
      [] impl = "js-client" /\ op = "call-function" -> JsCallFunctionOutcome(status)
      [] impl = "js-client" /\ op = "create-instance" -> JsCreateInstanceOutcome(status)
      [] impl = "js-client" /\ op = "call-method" -> JsCallMethodOutcome(status)

\* client.py, call_method: `if instance_id is None:
\* instance_id = self.instance_cache.get(class_name)`.
PyCallMethodId(cache, cls, given) == IF given = NoId THEN cache[cls] ELSE given

\* client.js, callMethod: `if (instanceId === null)
\* instanceId = this.instanceCache.get(className)`.
JsCallMethodId(cache, cls, given) == IF given = NoId THEN cache[cls] ELSE given

\* The instance cache an implementation reads and writes.
CacheOf(impl) ==
    IF impl = "ts-runtime" THEN instanceCache ELSE clientCache[impl]

\* The instance_id of the request an operation sends.
RequestInstanceId(impl, op, cls, given) ==
    CASE op # "call-method" -> NoId
      [] op = "call-method" /\ impl = "ts-runtime" ->
            CallMethodRequest(instanceCache, cls, "", "a").instance_id
      [] op = "call-method" /\ impl = "py-client" ->
            PyCallMethodId(clientCache[impl], cls, given)
      [] op = "call-method" /\ impl = "js-client" ->
            JsCallMethodId(clientCache[impl], cls, given)

RemoteIdle ==
    /\ clientCache = [i \in GeneratedClients |-> [c \in ProxyClasses |-> NoId]]
    /\ ops = <<>>

\* An operation is called on the runtime or on a client and sends its request.
\* The runtime's callMethod takes no identity; the clients' call_method may.
IssueOperation(impl, op, cls, given) ==
    /\ Len(ops) < MaxOps
    /\ given # NoId => op = "call-method" /\ impl \in GeneratedClients
    /\ ops' = Append(ops,
          [impl |-> impl, op |-> op, cls |-> cls,
           instance_id |-> RequestInstanceId(impl, op, cls, given),
           status |-> 0, outcome |-> "pending", result |-> NoId])
    /\ UNCHANGED <<proxyVars, nextId, clientCache, genVars, convVars>>

\* The response to an operation arrives: the operation raises or returns; a
\* returning create-instance stores the identity in the instance cache.
CompleteOperation(i, status) ==
    /\ ops[i].outcome = "pending"
    /\ LET o == ops[i]
           out == OperationOutcome(o.impl, o.op, status)
           created == out = "returned" /\ o.op = "create-instance"
       IN  /\ ops' = [ops EXCEPT ![i].status = status, ![i].outcome = out,
                                 ![i].result = IF created THEN nextId ELSE NoId]
           /\ nextId' = IF created THEN nextId + 1 ELSE nextId
           /\ instanceCache' =
                 IF created /\ o.impl = "ts-runtime"
                 THEN [instanceCache EXCEPT ![o.cls] = nextId]
                 ELSE instanceCache
           /\ clientCache' =
                 IF created /\ o.impl \in GeneratedClients
                 THEN [clientCache EXCEPT ![o.impl][o.cls] = nextId]
                 ELSE clientCache
    /\ UNCHANGED <<proxies, calls, requests, genVars, convVars>>

RemoteNext ==
    \/ \E impl \in Implementations, op \in RemoteOperations,
          cls \in ProxyClasses, given \in 0..(nextId - 1) :
          IssueOperation(impl, op, cls, given)
    \/ \E i \in 1..Len(ops), status \in HttpStatuses :
          CompleteOperation(i, status)

ProxyInit ==
    /\ proxies = <<>>
    /\ instanceCache = [c \in ProxyClasses |-> NoId]
    /\ calls = <<>>
    /\ requests = <<>>
    /\ nextId = 1

\* const p = new Cls(args)
Construct(cls, args) ==
    /\ Len(proxies) < MaxProxies
    /\ proxies' = Append(proxies, NewProxy(cls, args))
    /\ UNCHANGED <<instanceCache, calls, requests, nextId, remoteVars, genVars, convVars>>

\* p.method(...): _callPythonMethod runs _ensureInstance up to its first
\* await; createInstance sends its request when the identity is absent.
StartCall(p, m) ==
    /\ Len(calls) < MaxCalls
    /\ IF NeedsInstance(p)
       THEN /\ calls' = Append(calls, NewCall(p, m, "awaitCreate"))
            /\ requests' = Append(requests,
                   [req |-> CreateInstanceRequest(proxies[p].cls, proxies[p].args),
                    proxy |-> p, call |-> Len(calls) + 1])
       ELSE /\ calls' = Append(calls, NewCall(p, m, "ensured"))
            /\ UNCHANGED requests
    /\ UNCHANGED <<proxies, instanceCache, nextId, remoteVars, genVars, convVars>>

\* The create-instance response arrives: createInstance resumes.
CreateInstanceResponse(c, status) ==
    /\ calls[c].pc = "awaitCreate"
    /\ LET out == CreateInstanceOutcome(status)
           cls == proxies[calls[c].proxy].cls
       IN  IF out = "raised"
           THEN /\ calls' = [calls EXCEPT ![c].pc = "raised",
                                          ![c].createStatus = status]
                /\ UNCHANGED <<instanceCache, nextId>>
           ELSE /\ calls' = [calls EXCEPT ![c].pc = "created",
                                          ![c].createStatus = status,
                                          ![c].created = nextId]
                /\ instanceCache' = [instanceCache EXCEPT ![cls] = nextId]
                /\ nextId' = nextId + 1
    /\ UNCHANGED <<proxies, requests, remoteVars, genVars, convVars>>

\* _ensureInstance resumes: this._instanceId = <the awaited identity>.
StoreInstanceId(c) ==
    /\ calls[c].pc = "created"
    /\ proxies' = [proxies EXCEPT ![calls[c].proxy].instanceId = calls[c].created]
    /\ calls' = [calls EXCEPT ![c].pc = "ensured"]
    /\ UNCHANGED <<instanceCache, requests, nextId, remoteVars, genVars, convVars>>

\* _callPythonMethod resumes after `await this._ensureInstance()`:
\* pyflowRuntime.callMethod(this.constructor.name, methodName, args,
\* this._constructorArgs) sends its request.
SendCallMethod(c) ==
    /\ calls[c].pc = "ensured"
    /\ LET p == calls[c].proxy
           r == CallMethodRequest(instanceCache, proxies[p].cls,
                                  calls[c].method, proxies[p].args)
       IN  /\ requests' = Append(requests, [req |-> r, proxy |-> p, call |-> c])
           /\ calls' = [calls EXCEPT ![c].pc = "awaitCall", ![c].sent = TRUE,
                                     ![c].sentId = r.instance_id]
    /\ UNCHANGED <<proxies, instanceCache, nextId, remoteVars, genVars, convVars>>

\* The call-method response arrives: callMethod resumes.
CallMethodResponse(c, status) ==
    /\ calls[c].pc = "awaitCall"
    /\ calls' = [calls EXCEPT ![c].pc = CallMethodOutcome(status),
                              ![c].callStatus = status]
    /\ UNCHANGED <<proxies, instanceCache, requests, nextId, remoteVars, genVars, convVars>>

(***************************************************************************)
(* The host program: the modules, classes and functions that the exposure  *)
(* marker and the generator inspect.                                       *)
(***************************************************************************)
\* Dotted module paths, as the sequences of their components.
ModPkg == <<"pkg">>
ModA == <<"pkg", "a">>
ModB == <<"pkg", "b">>
PyModules == {ModPkg, ModA, ModB}
\* Path components in sorted() order.
ComponentsSorted == <<"a", "b", "pkg">>

\* The classes, in the order of inspect.getmembers (sorted by name):
\* pkg.a defines A and B(A), pkg.b defines C.
ClassesByName == <<"A", "B", "C">>
PyClasses == {"A", "B", "C"}
ClsModule(c) == IF c \in {"A", "B"} THEN ModA ELSE ModB
\* cls.__name__ and cls.__qualname__ of a module-level class.
ClsName(c) == c
ClsQualname(c) == c
\* cls.__bases__, without object.
ClsBases(c) == IF c = "B" THEN {"A"} ELSE {}

\* The functions, in the order of inspect.getmembers: the method A.run, the
\* module-level functions f of pkg.a and f of pkg.b, and g of pkg.
FunctionsByName == <<"A.run", "f@a", "f@b", "g">>
PyFunctions == {"A.run", "f@a", "f@b", "g"}
NoOwner == "<module>"
FnOwner(f) == IF f = "A.run" THEN "A" ELSE NoOwner
FnModule(f) ==
    CASE f \in {"A.run", "f@a"} -> ModA
      [] f = "f@b" -> ModB
      [] f = "g" -> ModPkg
\* func.__name__ and func.__qualname__.
FnName(f) ==
    CASE f = "A.run" -> "run"
      [] f \in {"f@a", "f@b"} -> "f"
      [] f = "g" -> "g"
FnQualname(f) ==
    CASE f = "A.run" -> "A.run"
      [] f \in {"f@a", "f@b"} -> "f"
      [] f = "g" -> "g"

\* Type annotations: <<"int">>, <<"class", c>>, <<"list", T>>, <<"optional", T>>.
ClassType(c) == <<"class", c>>
ListOf(t) == <<"list", t>>
IntType == <<"int">>
\* The annotated parameter and return types of a function:
\* A.run(self) -> int; f(x: C) -> int in pkg.a; f(x: int) -> int in pkg.b;
\* g() -> List[A] in pkg.
FnSigTypes(f) ==
    CASE f = "A.run" -> {IntType}
      [] f = "f@a" -> {ClassType("C"), IntType}
      [] f = "f@b" -> {IntType}
      [] f = "g" -> {ListOf(ClassType("A"))}
\* The field types a class of the host program may annotate.
FieldTypes ==
    {ClassType(c) : c \in PyClasses} \cup {ListOf(ClassType("C"))}
\* A class annotates no field or one field.
AnnChoices == {{}} \cup {{t} : t \in FieldTypes}
\* The program the generation runs are checked on: A.x: B and B.x: A refer
\* to each other, C.x: List[A] refers to a class of another module.
DefaultAnn ==
    [c \in PyClasses |->
        CASE c = "A" -> {ClassType("B")}
          [] c = "B" -> {ClassType("A")}
          [] c = "C" -> {ListOf(ClassType("A"))}]

\* name.startswith('_')
StartsWithUnderscore(name) ==
    name \in {"__init__", "_pyflow_decorated", "_secret", "_helper"}

RECURSIVE Ancestors(_)
\* The classes of cls.__mro__ after cls itself, without object.
Ancestors(c) == ClsBases(c) \cup UNION {Ancestors(b) : b \in ClsBases(c)}

\* getattr(obj, '_pyflow_decorated', False): an attribute set on a base class
\* is found on its subclasses.
HasFlag(x) ==
    \/ x \in flagged
    \/ x \in PyClasses /\ \E b \in Ancestors(x) : b \in flagged

\* inspect.getmembers(cls, inspect.isfunction): the functions defined in the
\* class and those inherited and not overridden.
MembersOf(c) ==
    LET own == {f \in PyFunctions : FnOwner(f) = c}
        inherited == {f \in PyFunctions : FnOwner(f) \in Ancestors(c)}
    IN  own \cup {f \in inherited : \A g \in own : FnName(g) # FnName(f)}

\* The classes a type mentions, at any depth.
RECURSIVE MentionedClasses(_)
MentionedClasses(t) ==
    CASE t[1] = "class" -> {t[2]}
      [] t[1] \in {"list", "optional"} -> MentionedClasses(t[2])
      [] OTHER -> {}

(***************************************************************************)
(* core.py: the registry and the exposure marker.                          *)
(***************************************************************************)
\* The position of a key in an insertion-ordered dict, 0 when absent.
IndexOfKey(entries, q) ==
    IF \E i \in 1..Len(entries) : entries[i].qualname = q
    THEN CHOOSE i \in 1..Len(entries) : entries[i].qualname = q
    ELSE 0

\* dict[key] = value: a new key is appended, a present key keeps its place
\* and takes the new value.
DictSet(entries, e) ==
    LET i == IndexOfKey(entries, e.qualname)
    IN  IF i = 0 THEN Append(entries, e) ELSE [entries EXCEPT ![i] = e]

\* Registry.register_function: the entry stored under func.__qualname__.
FunctionEntry(f, m) == [qualname |-> FnQualname(f), func |-> f, module |-> m]

\* Registry.register_class: the methods recorded are the public ones (and
\* __init__) that do not carry the flag.
RegisteredMethods(c) ==
    {f \in MembersOf(c) :
        /\ (~StartsWithUnderscore(FnName(f)) \/ FnName(f) = "__init__")
        /\ ~HasFlag(f)}

\* Registry.register_class: the entry stored under cls.__qualname__.
ClassEntry(c, m) ==
    [qualname |-> ClsQualname(c), cls |-> c, module |-> m,
     methods |-> RegisteredMethods(c)]

\* No call of try_import_module so far.
NoImport ==
    [module |-> <<>>, state |-> "idle", before |-> <<>>, unsupported |-> 0]

\* No call of generate_all whose outcome is recorded.
NoRun ==
    [started |-> FALSE, touched |-> {}, processed |-> {}, indexed |-> FALSE]

\* Registry.__new__: the empty registry; nothing generated yet.
GenIdle ==
    /\ regFunctions = <<>>
    /\ regClasses = <<>>
    /\ regModules = {}
    /\ flagged = {}
    /\ files = <<>>
    /\ hist = [regs |-> 0, runs |-> 0, streak |-> 0, before |-> <<>>,
               closures |-> {}, imports |-> 0, import |-> NoImport,
               run |-> NoRun]

\* @extensity on a class: sets the flag, then Registry.register_class.
ExposeClass(c) ==
    /\ hist.regs < MaxRegistrations
    /\ flagged' = flagged \cup {c}
    /\ regClasses' = DictSet(regClasses, ClassEntry(c, ClsModule(c)))
    /\ regModules' = regModules \cup {ClsModule(c)}
    /\ hist' = [hist EXCEPT !.regs = @ + 1, !.streak = 0]
    /\ UNCHANGED <<convVars, consumerVars, ann, regFunctions, files>>

\* @extensity on a function or on a method in a class body: sets the flag,
\* then Registry.register_function.
ExposeFunction(f) ==
    /\ hist.regs < MaxRegistrations
    /\ flagged' = flagged \cup {f}
    /\ regFunctions' = DictSet(regFunctions, FunctionEntry(f, FnModule(f)))
    /\ regModules' = regModules \cup {FnModule(f)}
    /\ hist' = [hist EXCEPT !.regs = @ + 1, !.streak = 0]
    /\ UNCHANGED <<convVars, consumerVars, ann, regClasses, files>>

\* The registry's functions, classes and touched-module set.
RegistryContent == <<regFunctions, regClasses, regModules>>

\* try_import_module: importlib.import_module starts to execute the body of
\* module m; initial_registry_size has been read.
BeginImport(m) ==
    /\ hist.import.state # "running"
    /\ hist.imports < MaxImports
    /\ hist' = [hist EXCEPT !.imports = @ + 1,
                            !.import = [module |-> m, state |-> "running",
                                        before |-> RegistryContent,
                                        unsupported |-> 0]]
    /\ UNCHANGED <<convVars, consumerVars, ann, regFunctions, regClasses,
                   regModules, flagged, files>>

\* The module body reaches a class or a function that carries the marker.
ImportExposeClass(c) ==
    /\ hist.import.state = "running"
    /\ ClsModule(c) = hist.import.module
    /\ ExposeClass(c)

ImportExposeFunction(f) ==
    /\ hist.import.state = "running"
    /\ FnModule(f) = hist.import.module
    /\ ExposeFunction(f)

\* The module body applies the marker to something that is neither a class
\* nor a function: extensity raises TypeError, which leaves the module body
\* and is caught by try_import_module's outer handler; it returns False.
ExposeUnsupported ==
    /\ hist.import.state = "running"
    /\ hist' = [hist EXCEPT !.import.state = "failed",
                            !.import.unsupported = @ + 1]
    /\ UNCHANGED <<convVars, consumerVars, ann, regFunctions, regClasses,
                   regModules, flagged, files>>

\* try_import_module returns: True when the body ran to its end, False when
\* it raised (an import of a missing dependency, or any other exception).
\* Nothing is taken back from the registry.
EndImport(outcome) ==
    /\ hist.import.state = "running"
    /\ hist' = [hist EXCEPT !.import.state = outcome]
    /\ UNCHANGED <<convVars, consumerVars, ann, regFunctions, regClasses,
                   regModules, flagged, files>>

ImportOutcomes == {"loaded", "failed"}

ImportNext ==
    \/ \E m \in PyModules : BeginImport(m)
    \/ \E c \in PyClasses : ImportExposeClass(c)
    \/ \E f \in PyFunctions : ImportExposeFunction(f)
    \/ ExposeUnsupported
    \/ \E outcome \in ImportOutcomes : EndImport(outcome)

(***************************************************************************)
(* Sequences as Python lists and insertion-ordered dicts; sets iterate in  *)
(* an order the run fixes.                                                 *)
(***************************************************************************)
Range(s) == {s[i] : i \in 1..Len(s)}

\* if x not in s: s.append(x)
AppendNew(s, x) == IF x \in Range(s) THEN s ELSE Append(s, x)

RECURSIVE ExtendNew(_, _)
ExtendNew(s, t) ==
    IF t = <<>> THEN s ELSE ExtendNew(AppendNew(s, Head(t)), Tail(t))

\* The orders in which a run may iterate a set.
Orderings(S) ==
    {s \in [1..Cardinality(S) -> S] :
        \A i, j \in 1..Cardinality(S) : s[i] = s[j] => i = j}

\* The elements of S in the order ord gives them.
InOrder(S, ord) == SelectSeq(ord, LAMBDA x : x \in S)

(***************************************************************************)
(* inspect_utils.py: the types a module's classes refer to.                *)
(***************************************************************************)
\* inspect.isclass(hint) and hint is no builtin: only a hint that is itself
\* a class counts, a class inside a container does not.
DirectClassRefs(types) == {t[2] : t \in {u \in types : u[1] = "class"}}

\* get_referenced_types of a function.
FunctionReferencedTypes(f) == DirectClassRefs(FnSigTypes(f))

\* get_referenced_types of a class: its methods' hints and its own
\* annotations; the classes found are not inspected in turn.
GetReferencedTypes(c) ==
    UNION {FunctionReferencedTypes(f) : f \in MembersOf(c)}
        \cup DirectClassRefs(ann[c])

RECURSIVE AllReferencedFrom(_, _, _, _)
AllReferencedFrom(i, acc, m, ord) ==
    IF i > Len(ClassesByName) THEN acc
    ELSE LET c == ClassesByName[i]
             same == {r \in GetReferencedTypes(c) : ClsModule(r) = m}
         IN  IF ClsModule(c) # m
             THEN AllReferencedFrom(i + 1, acc, m, ord)
             ELSE AllReferencedFrom(i + 1,
                      ExtendNew(AppendNew(acc, c), InOrder(same, ord)),
                      m, ord)

\* get_all_referenced_types: the keys of the dict, in insertion order.
GetAllReferencedTypes(m, ord) == AllReferencedFrom(1, <<>>, m, ord)

\* get_decorated_items_in_module: the classes and the module-level functions
\* of the module that carry the flag.
GetDecoratedItemsInModule(m) ==
    <<SelectSeq(ClassesByName, LAMBDA c : ClsModule(c) = m /\ HasFlag(c)),
      SelectSeq(FunctionsByName,
                LAMBDA f : FnModule(f) = m /\ FnOwner(f) = NoOwner /\ HasFlag(f))>>

(***************************************************************************)
(* type_converter.py: the declarations emitted. A line of output is kept   *)
(* as its kind, the name it declares or exports, the class names its text  *)
(* mentions, and the classes and functions of the host program it declares.*)
(***************************************************************************)
Line(kind, name, mentions) ==
    [kind |-> kind, name |-> name, mentions |-> mentions, declares |-> {}]

\* A declaration emitted for classes and functions of the host program.
Declaration(kind, name, mentions, entities) ==
    [Line(kind, name, mentions) EXCEPT !.declares = entities]

\* The public methods a class defines in its own body.
OwnPublicMethods(c) ==
    {f \in PyFunctions : FnOwner(f) = c /\ ~StartsWithUnderscore(FnName(f))}

\* python_type_to_ts_type: the class names in the converted text; a class
\* inside a container or an optional is named too.
TsTypeMentions(types) == UNION {MentionedClasses(t) : t \in types}

\* generate_ts_type: an interface with the annotated fields.
GenerateTsType(c) ==
    Declaration("interface", ClsName(c), TsTypeMentions(ann[c]), {c})

\* generate_ts_class: a class with the annotated fields and the public
\* methods.
GenerateTsClass(c) ==
    Declaration("class", ClsName(c),
         TsTypeMentions(ann[c]) \cup
         UNION {TsTypeMentions(FnSigTypes(f)) :
                    f \in {g \in MembersOf(c) : ~StartsWithUnderscore(FnName(g))}},
         {c} \cup OwnPublicMethods(c))

\* generate_ts_function
GenerateTsFunction(f) ==
    Declaration("function", FnName(f), TsTypeMentions(FnSigTypes(f)), {f})

(***************************************************************************)
(* ts_generator.py: TypeScriptGenerator.                                   *)
(***************************************************************************)
RuntimeCode == <<Line("runtime", "pyflowRuntime", {})>>
RuntimePath == <<"pyflowRuntime.ts">>
RootIndexPath == <<"index.ts">>
\* output_dir / module_path / "index.ts"
ModuleIndexPath(m) == m \o <<"index.ts">>

Exists(fs, path) == path \in DOMAIN fs

\* open(path, 'w') and write.
WriteFile(fs, path, content) ==
    [p \in DOMAIN fs \cup {path} |-> IF p = path THEN content ELSE fs[p]]

\* open(path, 'a') and write.
AppendFile(fs, path, content) ==
    [p \in DOMAIN fs |-> IF p = path THEN fs[p] \o content ELSE fs[p]]

\* generate_runtime
GenerateRuntime(fs) == WriteFile(fs, RuntimePath, RuntimeCode)

RegistryClassesOf(m) ==
    LET es == SelectSeq(regClasses, LAMBDA e : e.module = m)
    IN  [i \in 1..Len(es) |-> es[i].cls]

RegistryFunctionsOf(m) ==
    LET es == SelectSeq(regFunctions, LAMBDA e : e.module = m)
    IN  [i \in 1..Len(es) |-> es[i].func]

\* generate_module: the scan's classes, then the registry's.
DecoratedClasses(m) ==
    ExtendNew(GetDecoratedItemsInModule(m)[1], RegistryClassesOf(m))

\* generate_module: the scan's functions, then the registry's.
DecoratedFunctions(m) ==
    ExtendNew(GetDecoratedItemsInModule(m)[2], RegistryFunctionsOf(m))

\* The first class of the module, by name, that owns the registered method
\* and is not excluded.
MethodOwnerAdded(f, m, already) ==
    LET cands == SelectSeq(ClassesByName,
                     LAMBDA c : /\ ClsModule(c) = m
                                /\ f \in MembersOf(c)
                                /\ ~HasFlag(c)
                                /\ c \notin already)
    IN  IF cands = <<>> THEN {} ELSE {Head(cands)}

\* _get_classes_with_decorated_methods: the set is built from the module's
\* classes, the registry's functions and the registry's classes, and is
\* returned as list(set).
GetClassesWithDecoratedMethods(m, already, ord) ==
    LET scanned == {c \in PyClasses :
                       /\ ClsModule(c) = m
                       /\ ~HasFlag(c)
                       /\ c \notin already
                       /\ \E f \in MembersOf(c) : HasFlag(f)}
        owners == UNION {MethodOwnerAdded(e.func, m, already) :
                            e \in {x \in Range(regFunctions) :
                                      x.module = m /\ FnOwner(x.func) # NoOwner}}
        registered == {e.cls : e \in {x \in Range(regClasses) :
                          /\ x.module = m
                          /\ ~HasFlag(x.cls)
                          /\ x.cls \notin already
                          /\ \E f \in x.methods : HasFlag(f)}}
    IN  InOrder(scanned \cup owners \cup registered, ord)

\* generate_module: the referenced types kept are those whose name is not
\* processed yet and does not start with an underscore.
ReferencedTypes(m, processed, ord) ==
    SelectSeq(GetAllReferencedTypes(m, ord),
              LAMBDA c : ClsName(c) \notin processed
                         /\ ~StartsWithUnderscore(ClsName(c)))

\* What generate_module collects for a module before it emits.
ModuleClosure(m, ord) ==
    LET decorated == DecoratedClasses(m)
        withMethods == GetClassesWithDecoratedMethods(m, Range(decorated), ord)
        processed == {ClsName(c) : c \in Range(decorated) \cup Range(withMethods)}
    IN  [module |-> m,
         decorated |-> decorated,
         withMethods |-> SelectSeq(withMethods,
                             LAMBDA c : ClsName(c) \notin
                                 {ClsName(d) : d \in Range(decorated)}),
         functions |-> DecoratedFunctions(m),
         referenced |-> ReferencedTypes(m, processed, ord)]

\* generate_module: the text written to the module's index.ts.
ModuleCode(cl) ==
    LET generated == {ClsName(c) : c \in Range(cl.referenced)}
        classes == SelectSeq(cl.decorated \o cl.withMethods,
                       LAMBDA c : ClsName(c) \notin generated)
    IN  <<Line("import", "pyflowRuntime", {})>>
            \o [i \in 1..Len(cl.referenced) |-> GenerateTsType(cl.referenced[i])]
            \o [i \in 1..Len(classes) |-> GenerateTsClass(classes[i])]
            \o [i \in 1..Len(cl.functions) |-> GenerateTsFunction(cl.functions[i])]

\* generate_module: nothing is written for a module with nothing to
\* generate; otherwise index.ts is written and the runtime is copied to the
\* top-level package directory if it is not there.
GenerateModuleFiles(fs, m, ord) ==
    LET cl == ModuleClosure(m, ord)
        written == WriteFile(fs, ModuleIndexPath(m), ModuleCode(cl))
        target == <<m[1]>> \o RuntimePath
    IN  IF /\ cl.decorated = <<>>
           /\ cl.functions = <<>>
           /\ cl.referenced = <<>>
           /\ cl.withMethods = <<>>
        THEN fs
        ELSE IF Exists(written, target) THEN written
             ELSE WriteFile(written, target, RuntimeCode)

RECURSIVE GenerateModules(_, _, _)
\* generate_all: for module_name in registry.modules.
GenerateModules(fs, mods, ord) ==
    IF mods = <<>> THEN fs
    ELSE GenerateModules(GenerateModuleFiles(fs, Head(mods), ord), Tail(mods), ord)

\* generate_index: the keys of module_tree are the prefixes of the touched
\* modules.
ModuleTreeNodes ==
    UNION {{SubSeq(m, 1, i) : i \in 1..Len(m)} : m \in regModules}

\* generate_index: the last components of a node's direct children.
DirectChildren(node) ==
    {n[Len(n)] : n \in {x \in ModuleTreeNodes :
                      Len(x) = Len(node) + 1 /\ SubSeq(x, 1, Len(node)) = node}}

\* for child in sorted(direct_children): an export line each.
ExportLines(names) ==
    LET sorted == SelectSeq(ComponentsSorted, LAMBDA n : n \in names)
    IN  [i \in 1..Len(sorted) |-> Line("export", sorted[i], {})]

\* generate_index: the content computed for a node.
IndexContent(node) ==
    <<Line("comment", "generated", {})>>
        \o (IF DirectChildren(node) # {} THEN ExportLines(DirectChildren(node))
            ELSE IF node \in regModules
                 THEN <<Line("comment", "no child modules", {}),
                        Line("comment", "directly available", {})>>
                 ELSE <<Line("comment", "empty module structure", {})>>)

\* An index file that exists is left as it is.
WriteIndexOnlyIfMissing(fs, node) ==
    LET path == ModuleIndexPath(node)
    IN  IF ~Exists(fs, path) THEN WriteFile(fs, path, IndexContent(node))
        ELSE fs

\* generate_index: a missing index file is created; an existing one whose
\* content differs is opened with 'a' and the content is written after it.
WriteIndex(fs, node) ==
    LET path == ModuleIndexPath(node)
    IN  IF ~Exists(fs, path) THEN WriteFile(fs, path, IndexContent(node))
        ELSE IF fs[path] # IndexContent(node)
             THEN AppendFile(fs, path, IndexContent(node))
             ELSE fs

RECURSIVE WriteIndexes(_, _)
WriteIndexes(fs, nodes) ==
    IF nodes = <<>> THEN fs
    ELSE WriteIndexes(
             IF DirectChildren(Head(nodes)) # {} \/ Head(nodes) \in regModules
             THEN WriteIndex(fs, Head(nodes)) ELSE fs,
             Tail(nodes))

\* generate_index: the root index is opened with 'w'.
RootIndexContent ==
    <<Line("comment", "root index", {}), Line("import", "pyflowRuntime", {})>>
        \o ExportLines({n[1] : n \in {x \in ModuleTreeNodes : Len(x) = 1}})
        \o <<Line("export", "pyflowRuntime", {})>>

RECURSIVE ModuleTree(_, _)
\* generate_index: module_tree's keys in insertion order, the touched
\* modules being iterated in the order mods.
ModuleTree(acc, mods) ==
    IF mods = <<>> THEN acc
    ELSE ModuleTree(
             ExtendNew(acc, [i \in 1..Len(Head(mods)) |-> SubSeq(Head(mods), 1, i)]),
             Tail(mods))

\* generate_index
GenerateIndexFiles(fs, mods) ==
    WriteFile(WriteIndexes(fs, ModuleTree(<<>>, mods)),
              RootIndexPath, RootIndexContent)

\* generate_all: the runtime, every touched module, the index files.
GenerateAll ==
    /\ hist.runs < MaxRuns
    /\ \E ord \in Orderings(PyClasses), mods \in Orderings(regModules) :
          /\ files' = GenerateIndexFiles(
                          GenerateModules(GenerateRuntime(files), mods, ord),
                          mods)
          /\ hist' = [hist EXCEPT !.runs = @ + 1, !.streak = @ + 1,
                                  !.before = files,
                                  !.closures = {ModuleClosure(m, ord) : m \in regModules}]
    /\ UNCHANGED <<convVars, consumerVars, ann, regFunctions, regClasses, regModules, flagged>>

\* generate_index called on its own.
GenerateIndex ==
    /\ hist.runs < MaxRuns
    /\ \E mods \in Orderings(regModules) :
          files' = GenerateIndexFiles(files, mods)
    /\ hist' = [hist EXCEPT !.runs = @ + 1, !.streak = 0]
    /\ UNCHANGED <<convVars, consumerVars, ann, regFunctions, regClasses, regModules, flagged>>

\* generate_module called on its own for a touched module.
GenerateModule(m) ==
    /\ hist.runs < MaxRuns
    /\ \E ord \in Orderings(PyClasses) :
          /\ files' = GenerateModuleFiles(files, m, ord)
          /\ hist' = [hist EXCEPT !.runs = @ + 1, !.streak = 0,
                                  !.closures = {ModuleClosure(m, ord)}]
    /\ UNCHANGED <<convVars, consumerVars, ann, regFunctions, regClasses, regModules, flagged>>

\* What may go wrong for one module: nothing; an exception inside
\* generate_module's try block (reading the module, emitting, opening or
\* writing index.ts); output_dir.mkdir, which comes before the try block.
ModuleFailures == {"none", "emit", "mkdir"}

RECURSIVE GenerateModulesFailing(_, _, _, _)
\* generate_all's loop over registry.modules with the failures fail[m]. An
\* exception inside the try block is printed and the loop goes on; the one
\* raised by mkdir leaves generate_module and generate_all. processed holds
\* the modules generate_module was called for.
GenerateModulesFailing(run, mods, ord, fail) ==
    IF mods = <<>> \/ run.aborted THEN run
    ELSE LET m == Head(mods)
             next ==
                 CASE fail[m] = "mkdir" ->
                          [run EXCEPT !.processed = @ \cup {m},
                                      !.aborted = TRUE]
                   [] fail[m] = "emit" ->
                          [run EXCEPT !.processed = @ \cup {m}]
                   [] OTHER ->
                          [run EXCEPT !.files = GenerateModuleFiles(@, m, ord),
                                      !.processed = @ \cup {m}]
         IN  GenerateModulesFailing(next, Tail(mods), ord, fail)

\* generate_all in an environment where producing or writing may fail.
GenerateAllFailing ==
    /\ hist.runs < MaxRuns
    /\ \E ord \in Orderings(PyClasses), mods \in Orderings(regModules),
          fail \in [regModules -> ModuleFailures] :
          LET run == GenerateModulesFailing(
                         [files |-> GenerateRuntime(files), processed |-> {},
                          aborted |-> FALSE],
                         mods, ord, fail)
          IN  /\ files' = IF run.aborted THEN run.files
                          ELSE GenerateIndexFiles(run.files, mods)
              /\ hist' = [hist EXCEPT !.runs = @ + 1, !.streak = 0,
                                      !.run = [started |-> TRUE,
                                               touched |-> regModules,
                                               processed |-> run.processed,
                                               indexed |-> ~run.aborted]]
    /\ UNCHANGED <<convVars, consumerVars, ann, regFunctions, regClasses, regModules, flagged>>

\* Exposure, then generation runs in which modules may fail.
FailNext ==
    \/ \E c \in PyClasses : ExposeClass(c)
    \/ \E f \in PyFunctions : ExposeFunction(f)
    \/ GenerateAllFailing

GenNext ==
    \/ \E c \in PyClasses : ExposeClass(c)
    \/ \E f \in PyFunctions : ExposeFunction(f)
    \/ GenerateAll
    \/ GenerateIndex

\* Discovery first, then generate_module for touched modules.
ClosureNext ==
    \/ \E c \in PyClasses : hist.runs = 0 /\ ExposeClass(c)
    \/ \E f \in PyFunctions : hist.runs = 0 /\ ExposeFunction(f)
    \/ \E m \in regModules : GenerateModule(m)

(***************************************************************************)
(* type_converter.py: python_type_to_ts_type. A Python type is the tuple   *)
(* of its origin and its arguments: <<"int">>, <<"list">> (list or List    *)
(* without argument), <<"list", T>>, <<"dict", K, V>>, <<"union", T, U>>,  *)
(* <<"class", name>>. The TypeScript text is the sequence of its tokens.   *)
(***************************************************************************)
NoneType == <<"none">>
StrType == <<"str">>
FloatType == <<"float">>
BoolType == <<"bool">>
AnyType == <<"any">>
\* Objects the converter has no branch for: a Callable, a TypeVar, a string
\* left as a forward reference.
UnrecognizedTypes == {<<"callable">>, <<"typevar">>, <<"forwardref">>}
UnionOf(variants) == <<"union">> \o variants
DictOf(k, v) == <<"dict", k, v>>
SetOf(t) == <<"set", t>>
TupleOf(items) == <<"tuple">> \o items
\* get_origin and get_args
Origin(t) == t[1]
Args(t) == Tail(t)

UnionSeparator == " | "
AnyText == <<"any">>

RECURSIVE JoinTexts(_, _)
\* sep.join(texts)
JoinTexts(texts, sep) ==
    IF texts = <<>> THEN <<>>
    ELSE IF Len(texts) = 1 THEN texts[1]
         ELSE texts[1] \o <<sep>> \o JoinTexts(Tail(texts), sep)

\* What an IndexError raised inside the converter leaves in place of a text.
IndexErrorType == <<"IndexError">>
RaisedText == <<"<IndexError>">>
Raised(text) == "<IndexError>" \in Range(text)

\* args[i - 1] in Python: an index past the end raises IndexError.
ArgAt(args, i) == IF i <= Len(args) THEN args[i] ELSE IndexErrorType

\* The "is" tests on None, str, int, float and bool.
PrimitiveTypes == {NoneType, StrType, IntType, FloatType, BoolType}
\* A table that tests int before bool, as an isinstance test would.
ConvertPrimitiveBoolAsNumber(t) ==
    CASE t = NoneType -> <<"null">>
      [] t = StrType -> <<"string">>
      [] t \in {IntType, FloatType, BoolType} -> <<"number">>

ConvertPrimitive(t) ==
    CASE t = NoneType -> <<"null">>
      [] t = StrType -> <<"string">>
      [] t \in {IntType, FloatType} -> <<"number">>
      [] t = BoolType -> <<"boolean">>

RECURSIVE python_type_to_ts_type(_)

\* The converted texts of the arguments, in order.
ConvertAll(args) == [i \in 1..Len(args) |-> python_type_to_ts_type(args[i])]

\* The Optional special case fires when None is the second of two arguments.
IsOptionalForm(args) == Len(args) = 2 /\ args[2] = NoneType

\* A union that always writes null last.
ConvertUnionNullLast(args) ==
    LET others == SelectSeq(args, LAMBDA a : a # NoneType)
    IN  IF Len(others) = Len(args)
        THEN JoinTexts(ConvertAll(args), UnionSeparator)
        ELSE JoinTexts(ConvertAll(others), UnionSeparator)
                 \o <<UnionSeparator, "null">>

\* origin is Union
ConvertUnion(args) ==
    IF IsOptionalForm(args)
    THEN python_type_to_ts_type(ArgAt(args, 1)) \o <<UnionSeparator, "null">>
    ELSE JoinTexts(ConvertAll(args), UnionSeparator)

\* A list branch that reads args[0] without testing args.
ConvertListUnguarded(args) ==
    python_type_to_ts_type(ArgAt(args, 1)) \o <<"[]">>

\* origin is list
ConvertList(args) ==
    IF args # <<>> THEN python_type_to_ts_type(ArgAt(args, 1)) \o <<"[]">>
    ELSE <<"any", "[]">>

\* The key of the emitted Record: number for an int key, string otherwise.
RecordKey(keyType) == IF keyType = IntType THEN "number" ELSE "string"

\* origin is dict
ConvertDict(args) ==
    IF Len(args) >= 2
    THEN <<"Record<", RecordKey(ArgAt(args, 1)), ", ">>
             \o python_type_to_ts_type(ArgAt(args, 2)) \o <<">">>
    ELSE <<"Record<", "string", ", ", "any", ">">>

\* origin is tuple
ConvertTuple(args) ==
    IF args # <<>>
    THEN IF <<"ellipsis">> \notin Range(args)
         THEN <<"[">> \o JoinTexts(ConvertAll(args), ", ") \o <<"]">>
         ELSE python_type_to_ts_type(ArgAt(args, 1)) \o <<"[]">>
    ELSE <<"any", "[]">>

\* origin is set or frozenset
ConvertSet(args) ==
    IF args # <<>>
    THEN <<"Set<">> \o python_type_to_ts_type(ArgAt(args, 1)) \o <<">">>
    ELSE <<"Set<", "any", ">">>

\* "Default fallback"
ConvertFallback == AnyText

\* inspect.isclass(py_type): the class's __name__, whatever its module.
ConvertClass(name) == <<name>>

python_type_to_ts_type(t) ==
    CASE t = IndexErrorType -> RaisedText
      [] t \in PrimitiveTypes -> ConvertPrimitive(t)
      [] t = <<"bytes">> -> <<"Uint8Array">>
      [] t = AnyType -> AnyText
      [] t \in {<<"datetime">>, <<"date">>, <<"uuid">>} -> <<"string">>
      [] Origin(t) = "union" -> ConvertUnion(Args(t))
      [] Origin(t) = "list" -> ConvertList(Args(t))
      [] Origin(t) = "dict" -> ConvertDict(Args(t))
      [] Origin(t) = "tuple" -> ConvertTuple(Args(t))
      [] Origin(t) = "set" -> ConvertSet(Args(t))
      [] Origin(t) = "class" -> ConvertClass(t[2])
      [] OTHER -> ConvertFallback

(***************************************************************************)
(* type_converter.py: parameters of generate_ts_function and fields of     *)
(* generate_ts_class. A Python value is <<"str", characters>>,             *)
(* <<"int", n>>, <<"float", repr>>, <<"bool", b>> or <<"none">>.           *)
(***************************************************************************)
\* inspect.Parameter.empty; for a field, no class attribute of that name.
NoDefault == <<"empty">>
NoneValue == <<"none">>

\* str(value), as an f-string formats it.
PyStr(v) ==
    CASE v[1] = "int" -> ToString(v[2])
      [] v[1] = "float" -> v[2]
      [] v[1] = "bool" -> IF v[2] THEN "True" ELSE "False"
      [] OTHER -> "None"

\* generate_ts_function: the text after " = " for a parameter's default.
DefaultText(v) ==
    IF v[1] = "str" THEN <<"'">> \o v[2] \o <<"'">>
    ELSE IF v = NoneValue THEN <<"null">>
         ELSE <<PyStr(v)>>

\* generate_ts_function: one entry of params.
EmitParam(name, type, default) ==
    IF default # NoDefault
    THEN <<name, ": ">> \o python_type_to_ts_type(type) \o <<" = ">>
             \o DefaultText(default)
    ELSE <<name, ": ">> \o python_type_to_ts_type(type)

\* ts_type.endswith('[]')
EndsWithArray(text) == text[Len(text)] = "[]"
\* ts_type.startswith("Record<"), which covers ts_type == "Record<string, any>"
StartsWithRecord(text) == text[1] = "Record<"
\* "| null" in ts_type
ContainsOrNull(text) ==
    \E i \in 1..Len(text) - 1 : text[i] = UnionSeparator /\ text[i + 1] = "null"

NoInitializer == <<>>

\* generate_ts_class: default_value, chosen from the converted type alone.
FieldInitializer(text) ==
    IF EndsWithArray(text) THEN <<"[]">>
    ELSE IF StartsWithRecord(text) THEN <<"{}">>
    ELSE IF text = <<"string">> THEN <<"''">>
    ELSE IF text = <<"number">> THEN <<"0">>
    ELSE IF text = <<"boolean">> THEN <<"false">>
    ELSE IF ContainsOrNull(text) THEN <<"null">>
    ELSE NoInitializer

\* generate_ts_class: one entry of properties. The assignments collected in
\* constructor_body from the class attributes are discarded when the list
\* is emptied before the constructor is built.
EmitField(name, type, default) ==
    LET text == python_type_to_ts_type(type)
    IN  IF FieldInitializer(text) # NoInitializer
        THEN <<name, ": ">> \o text \o <<" = ">> \o FieldInitializer(text) \o <<";">>
        ELSE <<name, ": ">> \o text \o <<";">>

(***************************************************************************)
(* The inputs the converter is checked on.                                 *)
(***************************************************************************)
BaseTypes ==
    {NoneType, StrType, IntType, FloatType, BoolType, AnyType,
     ClassType("A"), <<"list">>, <<"dict">>, <<"tuple">>, <<"callable">>,
     <<"forwardref">>}

\* The types a union's arguments are drawn from.
UnionAtoms == {StrType, IntType, NoneType, ClassType("A")}

\* typing.Union keeps its arguments distinct and in the order written.
BaseUnions ==
    {UnionOf(p) : p \in {q \in UnionAtoms \X UnionAtoms : q[1] # q[2]}}
        \cup {UnionOf(p) :
                  p \in {q \in {StrType, IntType, NoneType} \X {FloatType}
                                \X {NoneType, ClassType("A")} : q[1] # q[3]}}

KeyTypes == {StrType, IntType, FloatType, BoolType}

\* A union flattens a union argument, so no argument is itself a union.
NonUnions(S) == {t \in S : Origin(t) # "union"}

\* The types built with one more constructor.
Generic(S) ==
    {ListOf(t) : t \in S}
        \cup {SetOf(t) : t \in S}
        \cup {DictOf(k, v) : k \in KeyTypes, v \in S}
        \cup {UnionOf(<<t, NoneType>>) : t \in NonUnions(S) \ {NoneType}}
        \cup {UnionOf(<<NoneType, t>>) : t \in NonUnions(S) \ {NoneType}}
        \cup {TupleOf(<<t, <<"ellipsis">>>>) : t \in {StrType}}

RECURSIVE TypesUpTo(_)
TypesUpTo(d) ==
    IF d = 0 THEN BaseTypes \cup BaseUnions
    ELSE TypesUpTo(d - 1) \cup Generic(TypesUpTo(d - 1))

PyTypes == TypesUpTo(MaxTypeDepth)

\* The defaults a parameter or a field may have.
PyDefaults ==
    {NoDefault, NoneValue, <<"str", <<"x">>>>, <<"str", <<"i", "t", "'", "s">>>>,
     <<"int", 0>>,
     <<"int", 7>>, <<"float", "1.5">>, <<"bool", TRUE>>, <<"bool", FALSE>>}

\* The types of the parameters and fields emitted.
MemberTypes == PyTypes

\* generate_ts_class: one method of inspect.getmembers(cls, isfunction),
\* taken without parameters. A private method is passed over and adds
\* nothing; __init__ gives the parameters of the constructor, which is
\* emitted for every class.
EmitMethod(name, returnType) ==
    IF StartsWithUnderscore(name) /\ name # "__init__" THEN <<>>
    ELSE IF name = "__init__" THEN <<"constructor", "(", ")">>
    ELSE <<name, "(", ")", ": ">> \o python_type_to_ts_type(returnType)

\* The names of the annotated fields and of the methods of a class.
FieldNames == {"x", "_secret"}
MethodNames == {"run", "_helper", "__init__"}

ConvIdle ==
    /\ convIn = [op |-> "none", name |-> "", type |-> AnyType,
                 default |-> NoDefault]
    /\ convOut = <<>>

\* A call of python_type_to_ts_type.
ConvertType ==
    /\ convIn.op = "type"
    /\ convOut = <<>>
    /\ convOut' = python_type_to_ts_type(convIn.type)
    /\ UNCHANGED <<consumerVars, genVars, convIn>>

\* generate_ts_function reaching a parameter.
EmitFunctionParam ==
    /\ convIn.op = "param"
    /\ convOut = <<>>
    /\ convOut' = EmitParam(convIn.name, convIn.type, convIn.default)
    /\ UNCHANGED <<consumerVars, genVars, convIn>>

\* generate_ts_class reaching an annotated field.
EmitClassField ==
    /\ convIn.op = "field"
    /\ convOut = <<>>
    /\ convOut' = EmitField(convIn.name, convIn.type, convIn.default)
    /\ UNCHANGED <<consumerVars, genVars, convIn>>

\* generate_ts_class reaching a method.
EmitClassMethod ==
    /\ convIn.op = "method"
    /\ convOut = <<>>
    /\ convOut' = EmitMethod(convIn.name, convIn.type)
    /\ UNCHANGED <<consumerVars, genVars, convIn>>

ConvNext ==
    ConvertType \/ EmitFunctionParam \/ EmitClassField \/ EmitClassMethod

\* The caller awaits each method call before it issues the next.
Next ==
    \/ \E cls \in ProxyClasses, args \in CtorArgs : Construct(cls, args)
    \/ \E p \in 1..Len(proxies), m \in ProxyMethods :
          ActiveCalls = {} /\ StartCall(p, m)
    \/ \E c \in 1..Len(calls), status \in ProxyStatuses :
          CreateInstanceResponse(c, status)
    \/ \E c \in 1..Len(calls) : StoreInstanceId(c)
    \/ \E c \in 1..Len(calls) : SendCallMethod(c)
    \/ \E c \in 1..Len(calls), status \in ProxyStatuses :
          CallMethodResponse(c, status)

\* The caller issues a method call while earlier ones are still pending:
\* the methods are async and nothing serialises them.
OverlapNext ==
    \/ \E cls \in ProxyClasses, args \in CtorArgs : Construct(cls, args)
    \/ \E p \in 1..Len(proxies), m \in ProxyMethods :
          Cardinality(ActiveCalls) < MaxOverlap /\ StartCall(p, m)
    \/ \E c \in 1..Len(calls), status \in ProxyStatuses :
          CreateInstanceResponse(c, status)
    \/ \E c \in 1..Len(calls) : StoreInstanceId(c)
    \/ \E c \in 1..Len(calls) : SendCallMethod(c)
    \/ \E c \in 1..Len(calls), status \in ProxyStatuses :
          CallMethodResponse(c, status)

\* Proxies whose calls follow one another, next to generated clients that
\* create instances directly.
CreateNext ==
    \/ Next
    \/ \E impl \in GeneratedClients, cls \in ProxyClasses :
          /\ Len(ops) < MaxClientCreates
          /\ IssueOperation(impl, "create-instance", cls, NoId)
    \/ \E i \in 1..Len(ops), status \in HttpStatuses :
          CompleteOperation(i, status)

Init == ProxyInit /\ RemoteIdle /\ GenIdle /\ ann = DefaultAnn /\ ConvIdle

Spec == Init /\ [][Next]_vars

\* Instance creation by proxies and by clients.
SpecCreate == Init /\ [][CreateNext]_vars

\* Proxies whose method calls may overlap.
SpecOverlap == Init /\ [][OverlapNext]_vars

\* The runtime and the clients called directly, without proxies.
SpecRemote == Init /\ [][RemoteNext]_vars

\* Exposure and generation runs on the program with the default annotations.
SpecGen == Init /\ [][GenNext]_vars

\* Any program the annotations allow.
InitClosure ==
    /\ ProxyInit /\ RemoteIdle /\ GenIdle /\ ConvIdle
    /\ ann \in [PyClasses -> AnnChoices]

SpecClosure == InitClosure /\ [][ClosureNext]_vars

\* Generation in an environment where a module's output may fail.
SpecFail == Init /\ [][FailNext]_vars

\* Discovery: modules are imported one after the other and their bodies
\* apply the exposure marker.
SpecImport == Init /\ [][ImportNext]_vars

\* The converter and the emitters applied to one input.
InitConv ==
    /\ ProxyInit /\ RemoteIdle /\ GenIdle /\ ann = DefaultAnn
    /\ convOut = <<>>
    /\ \/ convIn \in [op : {"type"}, name : {""}, type : PyTypes,
                      default : {NoDefault}]
       \/ convIn \in [op : {"param"}, name : {"p"}, type : MemberTypes,
                      default : PyDefaults]
       \/ convIn \in [op : {"field"}, name : FieldNames, type : MemberTypes,
                      default : PyDefaults]
       \/ convIn \in [op : {"method"}, name : MethodNames, type : BaseTypes,
                      default : {NoDefault}]

SpecConv == InitConv /\ [][ConvNext]_vars

(***************************************************************************)
(* Properties of the proxies (specification Spec).                         *)
(***************************************************************************)
CallsOf(p) == {c \in 1..Len(calls) : calls[c].proxy = p}
\* The identities the create-instance calls of proxy p returned.
OwnIds(p) == {calls[c].created : c \in CallsOf(p)} \ {NoId}
CreateRequestsOf(p) ==
    {i \in 1..Len(requests) :
        requests[i].proxy = p /\ requests[i].req.op = "create-instance"}
SuccessfulCreatesOf(p) == {c \in CallsOf(p) : calls[c].created # NoId}
FailedCreatesOf(p) ==
    {c \in CallsOf(p) :
        calls[c].createStatus # 0 /\ ~ResponseOk(calls[c].createStatus)}

\* C1: every call-method request issued on behalf of a proxy carries the
\* identity that the proxy's own create-instance call returned.
C1_CallCarriesOwnIdentity ==
    \A i \in 1..Len(requests) :
        requests[i].req.op = "call-method"
            => requests[i].req.instance_id \in OwnIds(requests[i].proxy)

\* C2 as stated: at most one create-instance request is issued during the
\* lifetime of a proxy.
C2_AtMostOneCreateRequest ==
    \A p \in 1..Len(proxies) : Cardinality(CreateRequestsOf(p)) <= 1

\* C2 as amended: at most one create-instance request of a proxy is answered
\* with an identity; once the proxy stores it, the stored identity is the one
\* that request returned and no later method call of the proxy issues a
\* create-instance request.
C2_AtMostOneSuccessfulCreate ==
    \A p \in 1..Len(proxies) :
        /\ Cardinality(SuccessfulCreatesOf(p)) <= 1
        /\ proxies[p].instanceId # NoId => OwnIds(p) = {proxies[p].instanceId}
        /\ \A c1, c2 \in CallsOf(p) :
              c1 < c2 /\ calls[c1].created # NoId => ~calls[c2].createAsked

\* C2 witness: a proxy whose first call created the instance and whose later
\* call completed on the stored identity without a create-instance request.
C2_Witness ==
    \E p \in 1..Len(proxies) : \E c1, c2 \in CallsOf(p) :
        /\ c1 < c2
        /\ calls[c1].created # NoId
        /\ calls[c2].pc = "returned"
        /\ ~calls[c2].createAsked

SameClassPairs ==
    {pq \in (1..Len(proxies)) \X (1..Len(proxies)) :
        pq[1] # pq[2] /\ proxies[pq[1]].cls = proxies[pq[2]].cls}
HasReturnedCall(p) == \E c \in CallsOf(p) : calls[c].pc = "returned"

C4_CallMethodOnlyAfterEnsure ==
    /\ \A c \in 1..Len(calls) :
          LET p == calls[c].proxy IN
          /\ calls[c].sent =>
                /\ proxies[p].instanceId # NoId
                /\ \E c0 \in CallsOf(p) :
                      /\ c0 <= c
                      /\ ResponseOk(calls[c0].createStatus)
                      /\ calls[c0].created = proxies[p].instanceId
          /\ (calls[c].createStatus # 0 /\ ~ResponseOk(calls[c].createStatus))
                => ~calls[c].sent /\ calls[c].pc = "raised"
    /\ \A i \in 1..Len(requests) :
          requests[i].req.op = "call-method" => calls[requests[i].call].sent

\* C4 witness: one call has sent its call-method request and another call
\* ended at a failed create-instance without sending one.
C4_Witness ==
    /\ \E c \in 1..Len(calls) : calls[c].sent
    /\ \E c \in 1..Len(calls) :
          /\ calls[c].createStatus # 0
          /\ ~ResponseOk(calls[c].createStatus)
          /\ calls[c].pc = "raised"

(***************************************************************************)
(* Properties of the remote operations (specification SpecRemote).         *)
(***************************************************************************)
\* C5: an operation of the runtime or of a generated client that was answered
\* with a non-success response has ended by raising, never by returning.
C5_NonSuccessRaises ==
    \A i \in 1..Len(ops) :
        ops[i].outcome # "pending" /\ ~ResponseOk(ops[i].status)
            => ops[i].outcome = "raised" /\ ops[i].result = NoId

\* C5 witness: two different implementations have each ended a different
\* operation on a non-success response.
C5_Witness ==
    \E i, j \in 1..Len(ops) :
        /\ ops[i].impl # ops[j].impl
        /\ ops[i].op # ops[j].op
        /\ \A k \in {i, j} :
              ops[k].outcome = "raised" /\ ~ResponseOk(ops[k].status)

(***************************************************************************)
(* Properties of generation runs (specification SpecGen).                  *)
(***************************************************************************)
\* C6: when generate_all has run twice in a row against an unchanged
\* registry, every output file has after the second run exactly the content
\* it had after the first, whatever order the sets were iterated in.
C6_SecondRunLeavesFilesUnchanged ==
    hist.streak >= 2 => files = hist.before

IndexPaths == {p \in DOMAIN files : p[Len(p)] = "index.ts"}

\* C7: no index file contains the same export line more than once, after
\* any sequence of generation runs and registrations.
C7_IndexFilesHoldNoDuplicateExport ==
    \A p \in IndexPaths :
        \A i, j \in 1..Len(files[p]) :
            files[p][i].kind = "export" /\ files[p][i] = files[p][j] => i = j

\* C8: a registration never changes an entry the registry already holds:
\* the entry stored under a qualified name stays the one recorded first.
C8_ReRegistrationIsNoOp ==
    [][/\ \A i \in 1..Len(regFunctions) : regFunctions'[i] = regFunctions[i]
       /\ \A i \in 1..Len(regClasses) : regClasses'[i] = regClasses[i]]_vars

(***************************************************************************)
(* Properties of the closure (specification SpecClosure).                  *)
(***************************************************************************)
\* How often class c occurs in what generate_module collected.
Occurrences(cl, c) ==
    LET all == cl.decorated \o cl.withMethods \o cl.referenced
    IN  Cardinality({i \in 1..Len(all) : all[i] = c})

\* Class a has a field whose type is class b.
References(a, b) == b \in DirectClassRefs(ann[a])

\* C9: when two classes refer to each other, what generate_module collects
\* for the module of one of them holds both classes exactly once each.
C9_CyclicPairAccountedOnce ==
    \A cl \in hist.closures :
        \A a, b \in PyClasses :
            /\ a # b
            /\ ClsModule(a) = cl.module
            /\ References(a, b)
            /\ References(b, a)
            => Occurrences(cl, a) = 1 /\ Occurrences(cl, b) = 1

\* The class names the output declares.
DeclaredNames ==
    UNION {{files[p][i].name :
               i \in {k \in 1..Len(files[p]) :
                          files[p][k].kind \in {"interface", "class"}}} :
           p \in DOMAIN files}

\* C10: every class name that appears in an emitted declaration has a
\* declaration in the output.
C10_EveryMentionedClassIsDeclared ==
    \A p \in DOMAIN files :
        \A i \in 1..Len(files[p]) :
            files[p][i].mentions \subseteq DeclaredNames

(***************************************************************************)
(* Properties of the emitted declarations (specification SpecGen).         *)
(***************************************************************************)
\* The lines of file p that declare class or function e.
DeclarationsOf(p, e) ==
    {i \in 1..Len(files[p]) : e \in files[p][i].declares}

\* C11: within the output of one module every class and every function of
\* the host program is declared at most once, by whatever paths it reached
\* the emitter.
C11_DeclaredAtMostOnce ==
    \A p \in IndexPaths :
        \A e \in PyClasses \cup PyFunctions :
            Cardinality(DeclarationsOf(p, e)) <= 1

(***************************************************************************)
(* Properties of the type converter (specification SpecConv).              *)
(***************************************************************************)
\* python_type_to_ts_type has returned for the input.
TypeConverted == convIn.op = "type" /\ convOut # <<>>

\* A union of exactly two arguments of which one is None.
IsNullable(t) ==
    /\ Origin(t) = "union"
    /\ Len(Args(t)) = 2
    /\ \E i \in 1..2 : Args(t)[i] = NoneType /\ Args(t)[3 - i] # NoneType

\* The argument of a nullable type that is not None.
NullableOf(t) == IF Args(t)[1] = NoneType THEN Args(t)[2] ELSE Args(t)[1]

\* C12: a union of exactly two variants of which one is null, in either
\* order, resolves to the text of the other variant followed by " | null".
C12_NullableSugarInEitherOrder ==
    TypeConverted /\ IsNullable(convIn.type)
        => convOut = python_type_to_ts_type(NullableOf(convIn.type))
                         \o <<UnionSeparator, "null">>

\* The table of the primitive descriptors.
PrimitiveTable(t) ==
    CASE t = StrType -> <<"string">>
      [] t = IntType -> <<"number">>
      [] t = FloatType -> <<"number">>
      [] t = BoolType -> <<"boolean">>
      [] t = NoneType -> <<"null">>

\* C13: text resolves to string, integer and float to number, boolean to
\* boolean and None to null.
C13_PrimitiveTable ==
    TypeConverted /\ convIn.type \in {StrType, IntType, FloatType, BoolType, NoneType}
        => convOut = PrimitiveTable(convIn.type)

\* C13 witness: bool has been converted to boolean.
C13_Witness ==
    TypeConverted /\ convIn.type = BoolType /\ convOut = <<"boolean">>

\* The tokens that open and close a bracketed part of a type text.
OpeningTokens == {"Record<", "Set<", "[", "("}
ClosingTokens == {">", "]", ")"}

\* How many bracketed parts are open at position i of the text.
NestingAt(text, i) ==
    Cardinality({j \in 1..i : text[j] \in OpeningTokens})
        - Cardinality({j \in 1..i : text[j] \in ClosingTokens})

\* The text reads as a union: a separator stands outside every bracket.
IsUnionText(text) ==
    \E i \in 1..Len(text) : text[i] = UnionSeparator /\ NestingAt(text, i) = 0

\* The text reads as an array with the given element text: the array suffix
\* binds tighter than the union separator, so a union element needs
\* parentheses.
DenotesArrayOf(text, elem) ==
    \/ text = elem \o <<"[]">> /\ ~IsUnionText(elem)
    \/ text = <<"(">> \o elem \o <<")", "[]">>

C16_UnionJoinsVariantsInOrder ==
    TypeConverted /\ Origin(convIn.type) = "union"
        => convOut = JoinTexts(
                         [i \in 1..Len(Args(convIn.type)) |->
                             python_type_to_ts_type(Args(convIn.type)[i])],
                         UnionSeparator)

\* C16 witness: a union of three variants with null first has been resolved.
C16_Witness ==
    /\ TypeConverted
    /\ convIn.type = UnionOf(<<NoneType, FloatType, ClassType("A")>>)
    /\ convOut = <<"null", UnionSeparator, "number", UnionSeparator, "A">>

\* C17: the converter returns a text for every type without raising, and a
\* type it has no branch for resolves to "any".
C17_ConverterIsTotal ==
    TypeConverted
        => /\ ~Raised(convOut)
           /\ convIn.type \in UnrecognizedTypes => convOut = AnyText

\* C17 witness: an unrecognized type has resolved to "any" and a list
\* without element type to "any[]".
C17_Witness ==
    /\ TypeConverted
    /\ \/ convIn.type = <<"callable">> /\ convOut = AnyText
       \/ convIn.type = <<"list">> /\ convOut = <<"any", "[]">>

\* C18: a field of an emitted class whose type is a class defined outside
\* every exposed module resolves to "any": the class's declaration does not
\* name that class.
C18_OutsideClassFieldResolvesToAny ==
    \A p \in IndexPaths :
        \A i \in 1..Len(files[p]) :
            \A c \in files[p][i].declares \cap PyClasses :
                \A t \in ann[c] :
                    Origin(t) = "class" /\ ClsModule(t[2]) \notin regModules
                        => /\ python_type_to_ts_type(t) = AnyText
                           /\ t[2] \notin files[p][i].mentions

(***************************************************************************)
(* Properties of the emitted members (specification SpecConv).             *)
(***************************************************************************)
RECURSIVE EscapeQuotes(_)
\* The characters of a single-quoted TypeScript literal for the text.
EscapeQuotes(chars) ==
    IF chars = <<>> THEN <<>>
    ELSE (IF Head(chars) \in {"'", "\\"} THEN <<"\\", Head(chars)>>
          ELSE <<Head(chars)>>) \o EscapeQuotes(Tail(chars))

\* The TypeScript literal that denotes a Python value.
TsLiteral(v) ==
    CASE v[1] = "str" -> <<"'">> \o EscapeQuotes(v[2]) \o <<"'">>
      [] v[1] = "int" -> <<ToString(v[2])>>
      [] v[1] = "float" -> <<v[2]>>
      [] v[1] = "bool" -> IF v[2] THEN <<"true">> ELSE <<"false">>
      [] OTHER -> <<"null">>

\* C19: a parameter with a literal default is emitted with the TypeScript
\* literal of that value; a parameter without default is emitted without
\* one.
C19_DefaultsReproduced ==
    convIn.op = "param" /\ convOut # <<>>
        => convOut = <<"p", ": ">> \o python_type_to_ts_type(convIn.type)
                         \o (IF convIn.default = NoDefault THEN <<>>
                             ELSE <<" = ">> \o TsLiteral(convIn.default))

\* C20: a field of nullable type without default is emitted with the
\* initializer null.
C20_NullableFieldInitializedToNull ==
    /\ convIn.op = "field" /\ convOut # <<>>
    /\ convIn.default = NoDefault
    /\ IsNullable(convIn.type)
    => SubSeq(convOut, Len(convOut) - 2, Len(convOut)) = <<" = ", "null", ";">>

\* C21: a field that declares a literal default is emitted with that same
\* literal as its initial value, not with a value derived from its type.
C21_FieldDefaultReproduced ==
    /\ convIn.op = "field" /\ convOut # <<>>
    /\ convIn.default # NoDefault
    => convOut = <<convIn.name, ": ">> \o python_type_to_ts_type(convIn.type)
                     \o <<" = ">> \o TsLiteral(convIn.default) \o <<";">>

\* C22: a field or a method is part of the emitted class only if its name
\* does not begin with '_', the constructor being the one exception.
C22_PrivateMembersNotEmitted ==
    convIn.op \in {"field", "method"} /\ convOut # <<>>
        => \/ ~StartsWithUnderscore(convIn.name)
           \/ convIn.op = "method" /\ convIn.name = "__init__"

(***************************************************************************)
(* Properties of discovery (specification SpecImport).                     *)
(***************************************************************************)
\* C23: after try_import_module has returned False for a module, the
\* registry's functions, classes and touched modules are what they were
\* before the attempt.
C23_FailedImportContributesNothing ==
    hist.import.state = "failed" => RegistryContent = hist.import.before

\* C24: a marker on an unsupported construct leaves the registry unchanged
\* and the import running, so that the remaining entities of the module are
\* still registered; an entity whose qualified name is already taken by a
\* different entity is skipped, the entry keeps the entity recorded first.
C24_BadRegistrationSkipsOnlyTheEntity ==
    [][/\ hist'.import.unsupported = hist.import.unsupported + 1
            => /\ RegistryContent' = RegistryContent
               /\ hist'.import.state = "running"
       /\ \A i \in 1..Len(regFunctions) :
              regFunctions'[i].func = regFunctions[i].func
       /\ \A i \in 1..Len(regClasses) :
              regClasses'[i].cls = regClasses[i].cls]_vars

(***************************************************************************)
(* Properties of the registry's attribution (specification SpecGen).       *)
(***************************************************************************)
\* The entities registered so far: the marker flags what it registers.
RegisteredFunctions == flagged \cap PyFunctions
RegisteredClasses == flagged \cap PyClasses

\* C28: every entity registered so far has its own registry entry,
\* attributed to its module, also when entities of different modules share
\* a qualified name; hence every touched module owns an entry.
C28_EveryRegisteredEntityKeepsItsEntry ==
    /\ \A f \in RegisteredFunctions :
           \E i \in 1..Len(regFunctions) :
               regFunctions[i].func = f /\ regFunctions[i].module = FnModule(f)
    /\ \A c \in RegisteredClasses :
           \E i \in 1..Len(regClasses) :
               regClasses[i].cls = c /\ regClasses[i].module = ClsModule(c)
    /\ \A m \in regModules :
           \/ \E i \in 1..Len(regFunctions) : regFunctions[i].module = m
           \/ \E i \in 1..Len(regClasses) : regClasses[i].module = m

\* C29: the flag read with getattr is true for a class exactly when the
\* class itself has an entry in the registry's classes.
C29_FlagMeansOwnEntry ==
    \A c \in PyClasses :
        HasFlag(c) <=> \E i \in 1..Len(regClasses) : regClasses[i].cls = c

(***************************************************************************)
(* Properties of generate_all under failures (specification SpecFail).     *)
(***************************************************************************)
\* C25: whatever fails for single modules, a run of generate_all goes
\* through every touched module and then generates the index files.
C25_ModuleFailureDoesNotStopTheRun ==
    hist.run.started
        => hist.run.processed = hist.run.touched /\ hist.run.indexed

(***************************************************************************)
(* Properties of the index files (specification SpecGen).                  *)
(***************************************************************************)
\* The file at path holds an export line for the child of that name.
Reexports(path, child) ==
    /\ Exists(files, path)
    /\ \E i \in 1..Len(files[path]) : files[path][i] = Line("export", child, {})

\* Every touched module is chained to the root index by re-exports.
EveryTouchedModuleReexported ==
    \A m \in regModules :
        /\ Reexports(RootIndexPath, m[1])
        /\ \A k \in 1..Len(m) - 1 :
               Reexports(ModuleIndexPath(SubSeq(m, 1, k)), m[k + 1])

\* C26: when generate_index has run (on its own or at the end of
\* generate_all), the index file of every proper prefix of every touched
\* module re-exports the next component on the path to that module, and
\* the root index re-exports every top-level component.
C26_IndexChainsReachEveryTouchedModule ==
    [][hist'.runs = hist.runs + 1 => EveryTouchedModuleReexported']_vars

\* C26 witness: pkg and pkg.a are touched, generation has run, pkg's index
\* file holds pkg's own declarations and the re-export of a.
C26_Witness ==
    /\ hist.runs > 0
    /\ regModules = {ModPkg, ModA}
    /\ EveryTouchedModuleReexported
    /\ \E i \in 1..Len(files[ModuleIndexPath(ModPkg)]) :
           files[ModuleIndexPath(ModPkg)][i].kind = "function"

(***************************************************************************)
(* Properties of overlapping calls (specification SpecOverlap).            *)
(***************************************************************************)
\* C27: a method call issued on a proxy while an earlier call on the same
\* proxy still awaits its create-instance response issues no create-instance
\* request of its own, and both calls are sent with the same identity.
C27_OverlappingCallsShareOneInstance ==
    \A c2 \in 1..Len(calls) :
        \A c1 \in calls[c2].overlaps :
            /\ ~calls[c2].createAsked
            /\ calls[c1].sent /\ calls[c2].sent
                   => calls[c1].sentId = calls[c2].sentId

(***************************************************************************)
(* Properties of failed instance creation (specification SpecCreate).      *)
(***************************************************************************)
\* The step completes the create-instance request of call c with a
\* non-success response.
ProxyCreateFails(c) ==
    /\ calls[c].pc = "awaitCreate"
    /\ calls'[c].pc # "awaitCreate"
    /\ ~ResponseOk(calls'[c].createStatus)

\* The step completes the create-instance operation i of a client with a
\* non-success response.
ClientCreateFails(i) ==
    /\ ops[i].op = "create-instance"
    /\ ops[i].outcome = "pending"
    /\ ops'[i].outcome # "pending"
    /\ ~ResponseOk(ops'[i].status)

\* No earlier call on the proxy of call c obtained an identity.
NoCreateSucceededBefore(c) ==
    \A b \in 1..(c - 1) :
        calls[b].proxy = calls[c].proxy => calls[b].created = NoId

\* C30: a create-instance request that ends with a non-success response
\* leaves the proxy's identity absent and every class-name-to-identity cache
\* as it was; a call on a proxy for which no creation succeeded attempts
\* create-instance again.
C30_FailedCreateChangesNothing ==
    [][/\ \A c \in 1..Len(calls) :
              ProxyCreateFails(c)
                  => /\ proxies' = proxies
                     /\ instanceCache' = instanceCache
                     /\ clientCache' = clientCache
                     /\ calls'[c].pc = "raised"
       /\ \A i \in 1..Len(ops) :
              ClientCreateFails(i)
                  => /\ instanceCache' = instanceCache
                     /\ clientCache' = clientCache
                     /\ ops'[i].outcome = "raised"
       /\ \A c \in 1..Len(calls) :
              NoCreateSucceededBefore(c) => calls[c].createAsked]_vars

\* C30 witness: a proxy's first create-instance failed and its next call
\* asked again, and a client's create-instance failed and left its cache
\* without an identity for the class.
C30_Witness ==
    /\ \E c1, c2 \in 1..Len(calls) :
           /\ c1 < c2 /\ calls[c1].proxy = calls[c2].proxy
           /\ calls[c1].pc = "raised" /\ calls[c1].createStatus = 500
           /\ calls[c2].createAsked
           /\ proxies[calls[c1].proxy].instanceId = NoId
    /\ \E i \in 1..Len(ops) :
           /\ ops[i].impl \in GeneratedClients
           /\ ops[i].outcome = "raised" /\ ops[i].status \in {400, 500}
           /\ clientCache[ops[i].impl][ops[i].cls] = NoId
====
